---- MODULE Spec2Model ----
(***************************************************************************)
(* A model of action-lark-bot (src/src/main.ts): the run() entry point,    *)
(* the variable parser, the Handlebars rendering with the json and jstr    *)
(* helpers, the body validation and the signed webhook dispatch with its   *)
(* timeout timer.                                                          *)
(*                                                                         *)
(* Text is modelled as a sequence of one-character strings, so that        *)
(* parsing, trimming, slicing and serialising are computed character by    *)
(* character as the code computes them.  JSON values are tagged records:   *)
(*   [t |-> "null"], [t |-> "bool", b], [t |-> "num", m, e] (m * 10^e,     *)
(*   m not a multiple of 10 unless 0), [t |-> "str", s], [t |-> "arr", xs],*)
(*   [t |-> "obj", ms] with ms the members [k, v] in property order, and   *)
(*   [t |-> "undefined"] for the JavaScript value undefined.               *)
(*                                                                         *)
(* Scope.  A template is given as the segments Handlebars compiles it to:  *)
(* literal text, {{path}}, {{json path}} and {{jstr path}}; block helpers  *)
(* and the tokenising of the template text are not modelled.  JSON text    *)
(* has no \b, \f or \uXXXX escapes and numbers are in positional notation. *)
(* HMAC-SHA256 is symbolic.  The boolean inputs are valid booleans.  Time  *)
(* is counted in milliseconds from the fetch call and cannot pass the      *)
(* delay of a pending timer without the timer firing.                      *)
(***************************************************************************)
EXTENDS Integers, Sequences, FiniteSets, TLC

VARIABLES
    webhookUrl,      \* input webhook_url
    pc,              \* position of run(): "start", "built", "fetching", "reading", "done"; "kv", "kvdone" for the parser alone
    webhookSecret,   \* input webhook_secret
    template,        \* input message_template, as compiled segments
    variablesInput,  \* input variables
    dryRun,          \* input dry_run
    timeoutMsInput,  \* input request_timeout_ms
    failOnHttpError, \* input fail_on_http_error
    timeoutMs,       \* run(): parsed timeout
    vars,            \* buildBodyFromTemplate: the parsed variable mapping
    rendered,        \* buildBodyFromTemplate: <<interpolated>> once compiled(vars) returned
    body,            \* run(): <<body>> once buildBodyFromTemplate returned
    infoLog,         \* core.info calls, in order
    outputs,         \* core.setOutput calls, by name
    failed,          \* core.setFailed calls, in order
    thrown,          \* <<error>> once an error reached run()'s catch
    sendCalls,       \* number of sendLarkWebhook invocations
    now,             \* sendLarkWebhook: requestTimestamp
    posted,          \* <<payload>> once fetch was called with it
    timer,           \* the setTimeout timer of sendLarkWebhook: "none", "pending", "fired", "cleared"
    timerDelay,      \* the delay the timer was created with
    aborted,         \* controller.signal.aborted
    elapsed,         \* milliseconds since fetch was called
    res              \* <<response>> once fetch resolved

vars_all == <<webhookUrl, pc, webhookSecret, template, variablesInput, dryRun, timeoutMsInput,
              failOnHttpError, timeoutMs, vars, rendered, body, infoLog, outputs,
              failed, thrown, sendCalls, now, posted, timer, timerDelay, aborted,
              elapsed, res>>

-----------------------------------------------------------------------------
(* Characters and text. *)

DigitChars == <<"0", "1", "2", "3", "4", "5", "6", "7", "8", "9">>

DigitVal(c) == (CHOOSE i \in 1..10 : DigitChars[i] = c) - 1

\* The white space String.prototype.trim and the regular expression \s remove
\* (of the characters of the model).
WhiteSpace == {" ", "\t", "\n", "\r"}

\* The white space JSON.parse skips between tokens.
JsonWhiteSpace == {" ", "\t", "\n", "\r"}

AllIn(s, S) == \A i \in 1..Len(s) : s[i] \in S

\* String.prototype.trim
Trim(s) ==
    IF AllIn(s, WhiteSpace) THEN <<>>
    ELSE LET a == CHOOSE i \in 1..Len(s) :
                      s[i] \notin WhiteSpace /\ \A j \in 1..(i - 1) : s[j] \in WhiteSpace
             b == CHOOSE i \in 1..Len(s) :
                      s[i] \notin WhiteSpace /\ \A j \in (i + 1)..Len(s) : s[j] \in WhiteSpace
         IN  SubSeq(s, a, b)

\* String.prototype.slice(1, -1)
Slice1m1(s) == SubSeq(s, 2, Len(s) - 1)

RECURSIVE Concat(_)
Concat(ss) == IF ss = <<>> THEN <<>> ELSE Head(ss) \o Concat(Tail(ss))

\* The value of a run of decimal digits.
RECURSIVE DigitsVal(_)
DigitsVal(s) ==
    IF s = <<>> THEN 0 ELSE 10 * DigitsVal(SubSeq(s, 1, Len(s) - 1)) + DigitVal(s[Len(s)])

\* The decimal digits of a natural number.
RECURSIVE NatToString(_)
NatToString(n) ==
    IF n < 10 THEN <<DigitChars[n + 1]>> ELSE NatToString(n \div 10) \o <<DigitChars[(n % 10) + 1]>>

\* String(n) of an integer
IntToString(n) == IF n < 0 THEN <<"-">> \o NatToString(-n) ELSE NatToString(n)

\* The length of the longest prefix of s from position p whose characters are in S.
RECURSIVE RunEnd(_, _, _)
RunEnd(s, p, S) == IF p <= Len(s) /\ s[p] \in S THEN RunEnd(s, p + 1, S) ELSE p

DigitSet == {DigitChars[i] : i \in 1..10}

-----------------------------------------------------------------------------
(* JSON values. *)

Undefined == [t |-> "undefined"]
JNull == [t |-> "null"]
JBool(b) == [t |-> "bool", b |-> b]
JStr(s) == [t |-> "str", s |-> s]
JArr(xs) == [t |-> "arr", xs |-> xs]
JObj(ms) == [t |-> "obj", ms |-> ms]

\* A number m * 10^e in normal form.
RECURSIVE JNum(_, _)
JNum(m, e) ==
    IF m = 0 THEN [t |-> "num", m |-> 0, e |-> 0]
    ELSE IF m % 10 = 0 THEN JNum(m \div 10, e + 1)
    ELSE [t |-> "num", m |-> m, e |-> e]

\* The positional notation of magnitude digits ds scaled by 10^e.
NumText(sign, ds, e) ==
    IF e >= 0 THEN sign \o ds \o [i \in 1..e |-> "0"]
    ELSE IF Len(ds) > -e
    THEN sign \o SubSeq(ds, 1, Len(ds) + e) \o <<".">> \o SubSeq(ds, Len(ds) + e + 1, Len(ds))
    ELSE sign \o <<"0", ".">> \o [i \in 1..(-e - Len(ds)) |-> "0"] \o ds

\* Number.prototype.toString for the numbers JavaScript prints in positional
\* notation (magnitude below 1e21 and at least 1e-6).
NumToString(n) ==
    IF n.m < 0 THEN NumText(<<"-">>, NatToString(-n.m), n.e)
    ELSE NumText(<<>>, NatToString(n.m), n.e)

\* An array index: the canonical decimal form of a natural number.  Such keys
\* come first, in ascending order, in the property order of an object.
IsArrayIndex(k) == k # <<>> /\ AllIn(k, DigitSet) /\ (Len(k) = 1 \/ k[1] # "0")

HasKey(ms, k) == \E i \in 1..Len(ms) : ms[i].k = k

\* obj[k]
GetKey(ms, k) ==
    IF HasKey(ms, k) THEN ms[CHOOSE i \in 1..Len(ms) : ms[i].k = k].v ELSE Undefined

\* obj[k] = v: an existing property keeps its place; a new array-index key goes
\* among the index keys in ascending order, any other key goes last.
SetKey(ms, k, v) ==
    IF HasKey(ms, k)
    THEN [i \in 1..Len(ms) |-> IF ms[i].k = k THEN [k |-> k, v |-> v] ELSE ms[i]]
    ELSE IF IsArrayIndex(k)
    THEN LET before == {i \in 1..Len(ms) :
                            IsArrayIndex(ms[i].k) /\ DigitsVal(ms[i].k) < DigitsVal(k)}
             n == Cardinality(before)
         IN  SubSeq(ms, 1, n) \o <<[k |-> k, v |-> v]>> \o SubSeq(ms, n + 1, Len(ms))
    ELSE Append(ms, [k |-> k, v |-> v])

\* { ...a, ...b } for member lists
RECURSIVE SetAll(_, _)
SetAll(ms, more) ==
    IF more = <<>> THEN ms ELSE SetAll(SetKey(ms, Head(more).k, Head(more).v), Tail(more))

Keys(ms) == {ms[i].k : i \in 1..Len(ms)}

-----------------------------------------------------------------------------
(* JSON.stringify *)

\* The quoted, escaped form of a string.  The control characters of the model
\* have two-character escapes.
EscapeChar(c) ==
    CASE c = "\"" -> <<"\\", "\"">>
      [] c = "\\" -> <<"\\", "\\">>
      [] c = "\n" -> <<"\\", "n">>
      [] c = "\r" -> <<"\\", "r">>
      [] c = "\t" -> <<"\\", "t">>
      [] c = "\f" -> <<"\\", "f">>
      [] OTHER -> <<c>>

Quote(s) == <<"\"">> \o Concat([i \in 1..Len(s) |-> EscapeChar(s[i])]) \o <<"\"">>

\* Array.prototype.join
RECURSIVE Join(_, _)
Join(ss, sep) ==
    IF ss = <<>> THEN <<>>
    ELSE IF Len(ss) = 1 THEN ss[1]
    ELSE ss[1] \o sep \o Join(Tail(ss), sep)

\* JSON.stringify(v) for a value other than undefined.
RECURSIVE StringifyText(_)
StringifyText(v) ==
    CASE v.t = "null" -> <<"n", "u", "l", "l">>
      [] v.t = "bool" -> IF v.b THEN <<"t", "r", "u", "e">> ELSE <<"f", "a", "l", "s", "e">>
      [] v.t = "num" -> NumToString(v)
      [] v.t = "str" -> Quote(v.s)
      [] v.t = "arr" ->
            <<"[">> \o Join([i \in 1..Len(v.xs) |-> StringifyText(v.xs[i])], <<",">>) \o <<"]">>
      [] v.t = "obj" ->
            <<"{">>
            \o Join([i \in 1..Len(v.ms) |->
                        Quote(v.ms[i].k) \o <<":">> \o StringifyText(v.ms[i].v)], <<",">>)
            \o <<"}">>

\* JSON.stringify(v): [def |-> FALSE] is the value undefined, which
\* JSON.stringify returns for undefined.
JSONstringify(v) ==
    IF v.t = "undefined" THEN [def |-> FALSE] ELSE [def |-> TRUE, s |-> StringifyText(v)]

-----------------------------------------------------------------------------
(* JSON.parse: [ok |-> FALSE] is a SyntaxError. *)

ParseFail == [ok |-> FALSE]

SkipWs(s, p) == RunEnd(s, p, JsonWhiteSpace)

StartsWithAt(s, p, w) == p + Len(w) - 1 <= Len(s) /\ SubSeq(s, p, p + Len(w) - 1) = w

\* The character a two-character escape stands for; <<>> when \c is no escape
\* of the model (\b and \uXXXX are not modelled, and no input uses them).
Unescape(c) ==
    CASE c = "\"" -> <<"\"">>
      [] c = "\\" -> <<"\\">>
      [] c = "/" -> <<"/">>
      [] c = "n" -> <<"\n">>
      [] c = "r" -> <<"\r">>
      [] c = "t" -> <<"\t">>
      [] c = "f" -> <<"\f">>
      [] OTHER -> <<>>

ControlChars == {"\n", "\r", "\t", "\f"}

\* The rest of a string literal, from position p just inside the opening quote.
RECURSIVE ScanString(_, _, _)
ScanString(s, p, acc) ==
    IF p > Len(s) THEN ParseFail
    ELSE IF s[p] = "\"" THEN [ok |-> TRUE, v |-> acc, p |-> p + 1]
    ELSE IF s[p] = "\\"
    THEN IF p + 1 > Len(s) \/ Unescape(s[p + 1]) = <<>> THEN ParseFail
         ELSE ScanString(s, p + 2, acc \o Unescape(s[p + 1]))
    ELSE IF s[p] \in ControlChars THEN ParseFail
    ELSE ScanString(s, p + 1, Append(acc, s[p]))

NumResult(neg, int, frac, ex, p) ==
    [ok |-> TRUE,
     v |-> JNum((IF neg THEN -1 ELSE 1) * DigitsVal(int \o frac), ex - Len(frac)),
     p |-> p]

\* The exponent digits s[e0..e1-1], if any.
NumExpDigits(s, neg, int, frac, eneg, e0, e1) ==
    IF e1 = e0 THEN ParseFail
    ELSE NumResult(neg, int, frac, (IF eneg THEN -1 ELSE 1) * DigitsVal(SubSeq(s, e0, e1 - 1)), e1)

\* The optional exponent part at position f1: [eE][+-]?[0-9]+
NumExp(s, neg, int, frac, f1) ==
    IF f1 <= Len(s) /\ s[f1] \in {"e", "E"}
    THEN IF f1 + 1 <= Len(s) /\ s[f1 + 1] \in {"+", "-"}
         THEN NumExpDigits(s, neg, int, frac, s[f1 + 1] = "-", f1 + 2, RunEnd(s, f1 + 2, DigitSet))
         ELSE NumExpDigits(s, neg, int, frac, FALSE, f1 + 1, RunEnd(s, f1 + 1, DigitSet))
    ELSE NumResult(neg, int, frac, 0, f1)

\* The fraction digits s[i1+1..f1-1] after the point at i1: at least one.
NumFrac(s, neg, i0, i1, f1) ==
    IF f1 = i1 + 1 THEN ParseFail
    ELSE NumExp(s, neg, SubSeq(s, i0, i1 - 1), SubSeq(s, i1 + 1, f1 - 1), f1)

\* The integer digits s[i0..i1-1]: 0, or a run that does not start with 0.
NumInt(s, neg, i0, i1) ==
    IF ~(i1 > i0 /\ (s[i0] # "0" \/ i1 = i0 + 1)) THEN ParseFail
    ELSE IF i1 <= Len(s) /\ s[i1] = "." THEN NumFrac(s, neg, i0, i1, RunEnd(s, i1 + 1, DigitSet))
    ELSE NumExp(s, neg, SubSeq(s, i0, i1 - 1), <<>>, i1)

\* A JSON number at position p: -? (0 | [1-9][0-9]*) (. [0-9]+)? ([eE][+-]?[0-9]+)?
ParseNumber(s, p) ==
    IF p <= Len(s) /\ s[p] = "-" THEN NumInt(s, TRUE, p + 1, RunEnd(s, p + 1, DigitSet))
    ELSE NumInt(s, FALSE, p, RunEnd(s, p, DigitSet))

StrResult(r) == IF r.ok THEN [ok |-> TRUE, v |-> JStr(r.v), p |-> r.p] ELSE ParseFail

RECURSIVE ParseValueAt(_, _)
RECURSIVE ParseElems(_, _, _)
RECURSIVE ParseMembers(_, _, _)

\* An array from position q, just after "[" and white space.
ParseArrayAt(s, q) ==
    IF q <= Len(s) /\ s[q] = "]" THEN [ok |-> TRUE, v |-> JArr(<<>>), p |-> q + 1]
    ELSE ParseElems(s, q, <<>>)

\* An object from position q, just after "{" and white space.
ParseObjectAt(s, q) ==
    IF q <= Len(s) /\ s[q] = "}" THEN [ok |-> TRUE, v |-> JObj(<<>>), p |-> q + 1]
    ELSE ParseMembers(s, q, <<>>)

\* A JSON value at position p, where white space has been skipped.
ParseValueAt(s, p) ==
    IF p > Len(s) THEN ParseFail
    ELSE IF StartsWithAt(s, p, <<"t", "r", "u", "e">>) THEN [ok |-> TRUE, v |-> JBool(TRUE), p |-> p + 4]
    ELSE IF StartsWithAt(s, p, <<"f", "a", "l", "s", "e">>) THEN [ok |-> TRUE, v |-> JBool(FALSE), p |-> p + 5]
    ELSE IF StartsWithAt(s, p, <<"n", "u", "l", "l">>) THEN [ok |-> TRUE, v |-> JNull, p |-> p + 4]
    ELSE IF s[p] = "\"" THEN StrResult(ScanString(s, p + 1, <<>>))
    ELSE IF s[p] = "[" THEN ParseArrayAt(s, SkipWs(s, p + 1))
    ELSE IF s[p] = "{" THEN ParseObjectAt(s, SkipWs(s, p + 1))
    ELSE ParseNumber(s, p)

\* A JSON value at position p, after white space.
ParseValue(s, p) == ParseValueAt(s, SkipWs(s, p))

\* After an element v: "," and more elements, or "]", at position q.
ElemsNext(s, xs, q) ==
    IF q > Len(s) THEN ParseFail
    ELSE IF s[q] = "," THEN ParseElems(s, q + 1, xs)
    ELSE IF s[q] = "]" THEN [ok |-> TRUE, v |-> JArr(xs), p |-> q + 1]
    ELSE ParseFail

ElemsValue(s, acc, r) ==
    IF ~r.ok THEN ParseFail ELSE ElemsNext(s, Append(acc, r.v), SkipWs(s, r.p))

\* The elements of an array from position p, up to and including "]".
ParseElems(s, p, acc) == ElemsValue(s, acc, ParseValue(s, p))

\* After a member: "," and more members, or "}", at position q.
MembersNext(s, ms, q) ==
    IF q > Len(s) THEN ParseFail
    ELSE IF s[q] = "," THEN ParseMembers(s, q + 1, ms)
    ELSE IF s[q] = "}" THEN [ok |-> TRUE, v |-> JObj(ms), p |-> q + 1]
    ELSE ParseFail

\* A repeated key keeps its first place and takes the last value.
MembersValue(s, acc, key, r) ==
    IF ~r.ok THEN ParseFail ELSE MembersNext(s, SetKey(acc, key, r.v), SkipWs(s, r.p))

MembersColon(s, acc, key, c) ==
    IF c > Len(s) \/ s[c] # ":" THEN ParseFail
    ELSE MembersValue(s, acc, key, ParseValue(s, c + 1))

MembersKey(s, acc, k) ==
    IF ~k.ok THEN ParseFail ELSE MembersColon(s, acc, k.v, SkipWs(s, k.p))

MembersAt(s, acc, p) ==
    IF p > Len(s) \/ s[p] # "\"" THEN ParseFail
    ELSE MembersKey(s, acc, ScanString(s, p + 1, <<>>))

\* The members of an object from position p, up to and including "}".
ParseMembers(s, p, acc) == MembersAt(s, acc, SkipWs(s, p))

\* The whole text must be one value and white space.
ParseWhole(s, r) ==
    IF r.ok /\ SkipWs(s, r.p) = Len(s) + 1 THEN [ok |-> TRUE, v |-> r.v] ELSE ParseFail

\* JSON.parse(s)
JSONparse(s) == ParseWhole(s, ParseValue(s, 1))

-----------------------------------------------------------------------------
(* The variable parser. *)

HexDigitSet == DigitSet \cup {"a", "b", "c", "d", "e", "f", "A", "B", "C", "D", "E", "F"}

\* The exponent part of a StringToNumber literal at f1, to the end of s.
IsExpToEnd(s, f1) ==
    IF f1 <= Len(s) /\ s[f1] \in {"e", "E"}
    THEN IF f1 + 1 <= Len(s) /\ s[f1 + 1] \in {"+", "-"}
         THEN f1 + 2 <= Len(s) /\ AllIn(SubSeq(s, f1 + 2, Len(s)), DigitSet)
         ELSE f1 + 1 <= Len(s) /\ AllIn(SubSeq(s, f1 + 1, Len(s)), DigitSet)
    ELSE f1 = Len(s) + 1

\* The digits s[p..i1-1], then an optional point and digits, then the exponent.
IsDecimalAfterInt(s, p, i1) ==
    IF i1 <= Len(s) /\ s[i1] = "."
    THEN (i1 > p \/ RunEnd(s, i1 + 1, DigitSet) > i1 + 1) /\ IsExpToEnd(s, RunEnd(s, i1 + 1, DigitSet))
    ELSE i1 > p /\ IsExpToEnd(s, i1)

\* Whether s, from position p, is an unsigned decimal literal of StringToNumber:
\* digits [. digits*] [exponent], or . digits [exponent], or Infinity.
IsUnsignedDecimalFrom(s, p) ==
    \/ SubSeq(s, p, Len(s)) = <<"I", "n", "f", "i", "n", "i", "t", "y">>
    \/ IsDecimalAfterInt(s, p, RunEnd(s, p, DigitSet))

IsRadixLiteral(s, marks, ds) ==
    Len(s) > 2 /\ s[1] = "0" /\ s[2] \in marks /\ AllIn(SubSeq(s, 3, Len(s)), ds)

\* Whether the trimmed text s is a StringNumericLiteral.
IsNumericLiteral(s) ==
    \/ s = <<>>
    \/ IsUnsignedDecimalFrom(s, 1)
    \/ s[1] \in {"+", "-"} /\ Len(s) > 1 /\ IsUnsignedDecimalFrom(s, 2)
    \/ IsRadixLiteral(s, {"x", "X"}, HexDigitSet)
    \/ IsRadixLiteral(s, {"o", "O"}, {"0", "1", "2", "3", "4", "5", "6", "7"})
    \/ IsRadixLiteral(s, {"b", "B"}, {"0", "1"})

\* Number.isNaN(Number(raw))
NumberIsNaN(raw) == ~IsNumericLiteral(Trim(raw))

\* \d+(?:\.\d+)?$ from position i0, the digits ending before i1.
DecimalRegexFrom(raw, i0, i1) ==
    /\ i1 > i0
    /\ IF i1 <= Len(raw) /\ raw[i1] = "."
       THEN i1 + 1 <= Len(raw) /\ AllIn(SubSeq(raw, i1 + 1, Len(raw)), DigitSet)
       ELSE i1 = Len(raw) + 1

\* /^-?\d+(?:\.\d+)?$/.test(raw)
DecimalRegexTest(raw) ==
    IF raw # <<>> /\ raw[1] = "-" THEN DecimalRegexFrom(raw, 2, RunEnd(raw, 2, DigitSet))
    ELSE DecimalRegexFrom(raw, 1, RunEnd(raw, 1, DigitSet))

\* The number with integer digits raw[i0..i1-1] and the fraction after i1.
DecimalValue(raw, neg, i0, i1) ==
    JNum((IF neg THEN -1 ELSE 1) * DigitsVal(SubSeq(raw, i0, i1 - 1) \o SubSeq(raw, i1 + 1, Len(raw))),
         IF i1 > Len(raw) THEN 0 ELSE i1 - Len(raw))

\* Number(raw) for a raw that DecimalRegexTest accepts.
NumberOfDecimal(raw) ==
    IF raw[1] = "-" THEN DecimalValue(raw, TRUE, 2, RunEnd(raw, 2, DigitSet))
    ELSE DecimalValue(raw, FALSE, 1, RunEnd(raw, 1, DigitSet))

\* try { return JSON.parse(raw) } catch { return raw }
ParsedOrRaw(raw, r) == IF r.ok THEN r.v ELSE JStr(raw)

\* A faulty variant of coerceValue: no JSON.parse attempt.
coerceValueNoJson(raw) ==
    IF raw = <<"t", "r", "u", "e">> THEN JBool(TRUE)
    ELSE IF raw = <<"f", "a", "l", "s", "e">> THEN JBool(FALSE)
    ELSE IF raw = <<"n", "u", "l", "l">> THEN JNull
    ELSE IF ~NumberIsNaN(raw) /\ DecimalRegexTest(raw) THEN NumberOfDecimal(raw)
    ELSE JStr(raw)

coerceValue(raw) ==
    IF raw = <<"t", "r", "u", "e">> THEN JBool(TRUE)
    ELSE IF raw = <<"f", "a", "l", "s", "e">> THEN JBool(FALSE)
    ELSE IF raw = <<"n", "u", "l", "l">> THEN JNull
    ELSE IF ~NumberIsNaN(raw) /\ DecimalRegexTest(raw) THEN NumberOfDecimal(raw)
    ELSE ParsedOrRaw(raw, JSONparse(raw))

\* The line that ends at the line feed at position n, without a carriage return before it.
LineBefore(s, n) == SubSeq(s, 1, IF n > 1 /\ s[n - 1] = "\r" THEN n - 2 ELSE n - 1)

\* input.split(/\r?\n/)
RECURSIVE SplitLines(_)
SplitLinesAt(s, n) == <<LineBefore(s, n)>> \o SplitLines(SubSeq(s, n + 1, Len(s)))

SplitLines(s) ==
    IF \A i \in 1..Len(s) : s[i] # "\n" THEN <<s>>
    ELSE SplitLinesAt(s, CHOOSE i \in 1..Len(s) : s[i] = "\n" /\ \A j \in 1..(i - 1) : s[j] # "\n")

\* The characters the regular expression . does not match.
LineTerminators == {"\n", "\r"}

NoneIn(s, a, b, S) == \A i \in a..b : s[i] \notin S

\* Whether /^(.*?)\s*([=:])\s*(.*)$/ matches line with a key of p characters
\* and the separator at position q.
KvMatchAt(line, p, q) ==
    /\ NoneIn(line, 1, p, LineTerminators)
    /\ \A i \in (p + 1)..(q - 1) : line[i] \in WhiteSpace
    /\ line[q] \in {"=", ":"}
    /\ \E r \in q..Len(line) :
          /\ \A i \in (q + 1)..r : line[i] \in WhiteSpace
          /\ NoneIn(line, r + 1, Len(line), LineTerminators)

KvPick(line, pq) ==
    [ok |-> TRUE, m1 |-> SubSeq(line, 1, pq[1]), m3 |-> SubSeq(line, pq[2] + 1, Len(line))]

KvCandidates(line) ==
    {pq \in (0..Len(line)) \X (1..Len(line)) : pq[1] < pq[2] /\ KvMatchAt(line, pq[1], pq[2])}

KvExecIn(line, cands) ==
    IF cands = {} THEN [ok |-> FALSE]
    ELSE KvPick(line, CHOOSE c \in cands : \A d \in cands : c[1] <= d[1])

\* re.exec(line): the lazy key group takes the shortest key that matches.
KvExec(line) == KvExecIn(line, KvCandidates(line))

\* if (!m) continue; vars[key] = coerceValue(raw)
KvAssign(acc, m) ==
    IF ~m.ok THEN acc ELSE SetKey(acc, Trim(m.m1), coerceValue(Trim(m.m3)))

\* The loop over the lines.
RECURSIVE KvLines(_, _)
KvLines(lines, acc) ==
    IF lines = <<>> THEN acc ELSE KvLines(Tail(lines), KvAssign(acc, KvExec(Head(lines))))

\* .map((l) => l.trim()).filter((l) => l && !l.startsWith('#'))
TrimmedLines(lines) ==
    SelectSeq([i \in 1..Len(lines) |-> Trim(lines[i])], LAMBDA l : l # <<>> /\ l[1] # "#")

\* The JSON attempt, and the line-oriented parsing after it.
VariablesFrom(input, obj) ==
    IF obj.ok /\ obj.v.t = "obj" THEN obj.v.ms
    ELSE KvLines(TrimmedLines(SplitLines(input)), <<>>)

\* parseVariables(input): the members of the variable mapping.
parseVariables(input) ==
    IF input = <<>> \/ Trim(input) = <<>> THEN <<>> ELSE VariablesFrom(input, JSONparse(input))

-----------------------------------------------------------------------------
(* Rendering.  A compiled template is a sequence of segments: literal text   *)
(* [k |-> "lit", s], or a mustache [k |-> "var" | "json" | "jstr", path]     *)
(* for {{path}}, {{json path}} and {{jstr path}}, path being the names of    *)
(* the dotted path.                                                          *)

\* Handlebars' lookupProperty: own properties only.
lookupProperty(parent, name) ==
    CASE parent.t = "obj" -> GetKey(parent.ms, name)
      [] parent.t = "arr" ->
            IF name = <<"l", "e", "n", "g", "t", "h">> THEN JNum(Len(parent.xs), 0)
            ELSE IF IsArrayIndex(name) /\ DigitsVal(name) < Len(parent.xs)
                 THEN parent.xs[DigitsVal(name) + 1]
                 ELSE Undefined
      [] parent.t = "str" ->
            IF name = <<"l", "e", "n", "g", "t", "h">> THEN JNum(Len(parent.s), 0)
            ELSE IF IsArrayIndex(name) /\ DigitsVal(name) < Len(parent.s)
                 THEN JStr(<<parent.s[DigitsVal(name) + 1]>>)
                 ELSE Undefined
      [] OTHER -> Undefined

\* The value of a dotted path: each step is (cur != null ? lookupProperty(cur, name) : cur).
RECURSIVE ResolvePath(_, _)
ResolvePath(cur, path) ==
    IF path = <<>> THEN cur
    ELSE IF cur.t \in {"null", "undefined"} THEN cur
    ELSE ResolvePath(lookupProperty(cur, Head(path)), Tail(path))

\* String(v), as string concatenation converts a value.
RECURSIVE ToStringJS(_)
ToStringJS(v) ==
    CASE v.t = "undefined" -> <<"u", "n", "d", "e", "f", "i", "n", "e", "d">>
      [] v.t = "null" -> <<"n", "u", "l", "l">>
      [] v.t = "bool" -> IF v.b THEN <<"t", "r", "u", "e">> ELSE <<"f", "a", "l", "s", "e">>
      [] v.t = "num" -> NumToString(v)
      [] v.t = "str" -> v.s
      [] v.t = "arr" ->
            Join([i \in 1..Len(v.xs) |->
                     IF v.xs[i].t \in {"null", "undefined"} THEN <<>> ELSE ToStringJS(v.xs[i])],
                 <<",">>)
      [] v.t = "obj" -> <<"[", "o", "b", "j", "e", "c", "t", " ", "O", "b", "j", "e", "c", "t", "]">>

\* new h.SafeString(x).toString() is '' + x, where x may be undefined.
SafeStringText(js) ==
    IF js.def THEN js.s ELSE <<"u", "n", "d", "e", "f", "i", "n", "e", "d">>

\* The helper json: (v) => new h.SafeString(JSON.stringify(v))
jsonHelper(v) == [ok |-> TRUE, s |-> SafeStringText(JSONstringify(v))]

TypeErrorSlice ==
    [name |-> "TypeError", message |-> "Cannot read properties of undefined (reading 'slice')",
     content |-> <<>>, isError |-> TRUE]

JstrText(js) ==
    IF ~js.def THEN [ok |-> FALSE, error |-> TypeErrorSlice] ELSE [ok |-> TRUE, s |-> Slice1m1(js.s)]

\* The helper jstr: (v) => new h.SafeString(JSON.stringify(v).slice(1, -1))
jstrHelper(v) == JstrText(JSONstringify(v))

\* What {{path}} appends under noEscape: the value's string form, nothing for
\* null and undefined.
VarText(v) == [ok |-> TRUE, s |-> IF v.t \in {"null", "undefined"} THEN <<>> ELSE ToStringJS(v)]

\* What one segment appends to the output.
RenderSegment(seg, ctx) ==
    CASE seg.k = "lit" -> [ok |-> TRUE, s |-> seg.s]
      [] seg.k = "var" -> VarText(ResolvePath(ctx, seg.path))
      [] seg.k = "json" -> jsonHelper(ResolvePath(ctx, seg.path))
      [] seg.k = "jstr" -> jstrHelper(ResolvePath(ctx, seg.path))

\* compiled(vars)
RECURSIVE Render(_, _, _)
RenderNext(tpl, ctx, acc, r) == IF r.ok THEN Render(tpl, ctx, acc \o r.s) ELSE r

Render(tpl, ctx, acc) ==
    IF tpl = <<>> THEN [ok |-> TRUE, s |-> acc]
    ELSE RenderNext(Tail(tpl), ctx, acc, RenderSegment(Head(tpl), ctx))

InvalidJsonError(interpolated) ==
    [name |-> "Error", message |-> "Interpolated message_template is not valid JSON.",
     content |-> interpolated, isError |-> TRUE]

\* Lines 156-165: body = JSON.parse(interpolated), or the error that carries the text.
BuildParsed(vs, interpolated, b) ==
    IF ~b.ok
    THEN [ok |-> FALSE, error |-> InvalidJsonError(interpolated), vars |-> vs, rendered |-> <<interpolated>>]
    ELSE [ok |-> TRUE, body |-> b.v, interpolated |-> interpolated, vars |-> vs,
          rendered |-> <<interpolated>>]

\* Lines 154-155: interpolated = compiled(vars), which may throw.
BuildRendered(vs, r) ==
    IF ~r.ok THEN [ok |-> FALSE, error |-> r.error, vars |-> vs, rendered |-> <<>>]
    ELSE BuildParsed(vs, r.s, JSONparse(r.s))

BuildWith(tpl, vs) == BuildRendered(vs, Render(tpl, JObj(vs), <<>>))

\* buildBodyFromTemplate(template, variablesInput); the fields vars and
\* rendered record the locals for the state.
buildBodyFromTemplate(tpl, variables) == BuildWith(tpl, parseVariables(variables))

-----------------------------------------------------------------------------
(* The state machine of run() and sendLarkWebhook. *)

\* The longest time the model lets a request stay in flight, in milliseconds.
MaxElapsed == 3

\* The longest raw value the parser is run on exhaustively.
MaxRawLen == 3

UrlSamples == {<<>>, <<"h", "t", "t", "p", "s", ":", "/", "/", "e", "x", "a", "m", "p", "l", "e">>}

SecretSamples == {<<>>, <<" ">>, <<"k">>}

Who == <<"w", "h", "o">>

TemplateSamples ==
    { <<>>,
      \* {"msg_type":"text","content":{"text":"Hello {{jstr who}}"}}
      <<[k |-> "lit", s |-> <<"{", "\"", "m", "s", "g", "_", "t", "y", "p", "e", "\"", ":", "\"", "t", "e", "x", "t", "\"", ",", "\"", "c", "o", "n", "t", "e", "n", "t", "\"", ":", "{", "\"", "t", "e", "x", "t", "\"", ":", "\"", "H", "e", "l", "l", "o", " ">>],
        [k |-> "jstr", path |-> <<Who>>],
        [k |-> "lit", s |-> <<"\"", "}", "}">>]>>,
      \* {"text":"{{who}}","timestamp":"1","sign":"x"}
      <<[k |-> "lit", s |-> <<"{", "\"", "t", "e", "x", "t", "\"", ":", "\"">>],
        [k |-> "var", path |-> <<Who>>],
        [k |-> "lit", s |-> <<"\"", ",", "\"", "t", "i", "m", "e", "s", "t", "a", "m", "p", "\"", ":", "\"", "1", "\"", ",", "\"", "s", "i", "g", "n", "\"", ":", "\"", "x", "\"", "}">>]>>,
      \* [{{json who}}]
      <<[k |-> "lit", s |-> <<"[">>],
        [k |-> "json", path |-> <<Who>>],
        [k |-> "lit", s |-> <<"]">>]>>,
      \* {{json who}}
      <<[k |-> "json", path |-> <<Who>>]>>,
      \* null
      <<[k |-> "lit", s |-> <<"n", "u", "l", "l">>]>>,
      \* "{{user.name}}"
      <<[k |-> "lit", s |-> <<"\"">>],
        [k |-> "var", path |-> <<<<"u", "s", "e", "r">>, <<"n", "a", "m", "e">>>>],
        [k |-> "lit", s |-> <<"\"">>]>> }

VariablesSamples ==
    { <<>>,
      \* who=CI
      <<"w", "h", "o", "=", "C", "I">>,
      \* {"who":{"a":1},"user":{"name":"N"}}
      <<"{", "\"", "w", "h", "o", "\"", ":", "{", "\"", "a", "\"", ":", "1", "}", ",", "\"", "u", "s", "e", "r", "\"", ":", "{", "\"", "n", "a", "m", "e", "\"", ":", "\"", "N", "\"", "}", "}">>,
      \* who=a"b
      <<"w", "h", "o", "=", "a", "\"", "b">> }

TimeoutSamples == {<<>>, <<"2">>, <<"1", "x">>, <<"a", "b">>, <<"0">>, <<"-", "1">>}

NowSamples == {1699999999, 1700000000}

StatusSamples == {200, 299, 300, 500}

TextSamples == {<<>>, <<"o", "k">>}

NoOutputs == [ok |-> <<>>, status |-> <<>>, response_text |-> <<>>]

\* The digits t[i0..i1-1] of parseInt, if any.
ParseIntDigits(t, neg, i0, i1) ==
    IF i1 = i0 THEN [k |-> "NaN"]
    ELSE [k |-> "num", n |-> (IF neg THEN -1 ELSE 1) * DigitsVal(SubSeq(t, i0, i1 - 1))]

\* parseInt after the leading white space: an optional sign, then digits.
ParseIntSigned(t) ==
    IF t # <<>> /\ t[1] \in {"+", "-"} THEN ParseIntDigits(t, t[1] = "-", 2, RunEnd(t, 2, DigitSet))
    ELSE ParseIntDigits(t, FALSE, 1, RunEnd(t, 1, DigitSet))

\* A faulty variant of parseInt: a strict parse, NaN unless the whole text is
\* an integer.
parseIntStrict(s) ==
    IF s # <<>> /\ AllIn(s, DigitSet) THEN [k |-> "num", n |-> DigitsVal(s)] ELSE [k |-> "NaN"]

\* parseInt(s, 10)
parseInt(s) == ParseIntSigned(SubSeq(s, RunEnd(s, 1, WhiteSpace), Len(s)))

\* timeoutMsInput ? parseInt(timeoutMsInput, 10) : undefined
ParseTimeout(input) == IF input # <<>> THEN parseInt(input) ELSE [k |-> "undefined"]

\* The truthiness of opts.timeoutMs: a number other than 0 and NaN.
Truthy(tm) == tm.k = "num" /\ tm.n # 0

\* A faulty variant of TimerFor: no timer is ever created.
TimerForNever(tm) == "none"

\* opts.timeoutMs ? setTimeout(...) : undefined
TimerFor(tm) == IF Truthy(tm) THEN "pending" ELSE "none"

\* The delay setTimeout gives a timer: a delay below 1 is taken as 1.
TimerDelayFor(tm) == IF ~Truthy(tm) THEN 0 ELSE IF tm.n < 1 THEN 1 ELSE tm.n

\* A faulty variant of ClearTimer: the finally clause does nothing.
ClearTimerNoop(t) == t

\* if (timeout) clearTimeout(timeout)
ClearTimer(t) == IF t = "pending" THEN "cleared" ELSE t

\* core.getInput(name, { required: true }) of an empty input
RequiredInputError(name) ==
    [name |-> "Error", message |-> "Input required and not supplied: " \o name,
     content |-> <<>>, isError |-> TRUE]

SigningPreconditionError ==
    [name |-> "Error",
     message |-> "Signing requires the message_template to be a JSON object to add timestamp and sign fields.",
     content |-> <<>>, isError |-> TRUE]

\* What fetch rejects with when the network fails, and when the signal aborts.
FetchFailedError ==
    [name |-> "TypeError", message |-> "fetch failed", content |-> <<>>, isError |-> TRUE]

AbortError ==
    [name |-> "AbortError", message |-> "This operation was aborted", content |-> <<>>, isError |-> TRUE]

\* What res.text() rejects with when the body cannot be read.
BodyReadError ==
    [name |-> "TypeError", message |-> "terminated", content |-> <<>>, isError |-> TRUE]

\* A faulty variant of CatchFailed: the error is swallowed.
CatchFailedSilent(err, sofar) == sofar

\* catch (error) { if (error instanceof Error) core.setFailed(error.message) }
CatchFailed(err, sofar) ==
    IF err.isError THEN Append(sofar, [message |-> err.message, content |-> err.content]) ELSE sofar

\* webhookKey && webhookKey.trim() !== ''
SigningEnabled(webhookKey) == webhookKey # <<>> /\ Trim(webhookKey) # <<>>

\* A faulty variant of IsPlainObject: the Array.isArray test is missing.
IsPlainObjectOrArray(b) == b.t \in {"obj", "arr"}

\* !(!body || typeof body !== 'object' || Array.isArray(body))
IsPlainObject(b) == b.t = "obj"

\* base64(HMAC-SHA256(key, message)), kept symbolic: a text that determines
\* and is determined by the key and the message.
HmacSha256Base64(key, message) == <<"h", "m", "a", "c", "(">> \o key \o <<"|">> \o message \o <<")">>

generateLarkWebhookSignature(webhookKey, timestamp) ==
    HmacSha256Base64(IntToString(timestamp) \o <<"\n">> \o webhookKey, <<>>)

TimestampKey == <<"t", "i", "m", "e", "s", "t", "a", "m", "p">>
SignKey == <<"s", "i", "g", "n">>

\* The own enumerable properties { ...body } copies: the members of an object,
\* the elements of an array and the characters of a string under their
\* indices, nothing of another value.
SpreadEntries(b) ==
    IF b.t = "obj" THEN b.ms
    ELSE IF b.t = "arr" THEN [i \in 1..Len(b.xs) |-> [k |-> NatToString(i - 1), v |-> b.xs[i]]]
    ELSE IF b.t = "str" THEN [i \in 1..Len(b.s) |-> [k |-> NatToString(i - 1), v |-> JStr(<<b.s[i]>>)]]
    ELSE <<>>

\* A faulty variant of SignedBody: { timestamp, sign, ...body }, where the
\* fields of the body win.
SignedBodyBodyWins(b, webhookKey, requestTimestamp) ==
    JObj(SetAll(<<[k |-> TimestampKey, v |-> JStr(IntToString(requestTimestamp))],
                  [k |-> SignKey, v |-> JStr(generateLarkWebhookSignature(webhookKey, requestTimestamp))]>>,
                SpreadEntries(b)))

\* { ...body, timestamp: String(requestTimestamp), sign }
SignedBody(b, webhookKey, requestTimestamp) ==
    JObj(SetAll(SpreadEntries(b),
                <<[k |-> TimestampKey, v |-> JStr(IntToString(requestTimestamp))],
                  [k |-> SignKey, v |-> JStr(generateLarkWebhookSignature(webhookKey, requestTimestamp))]>>))

\* Response.ok
ResponseOk(status) == status >= 200 /\ status < 300

\* A faulty variant of HttpFailure: fail_on_http_error is ignored.
HttpFailureAlways(ok, failOn) == ~ok

\* !ok && failOnHttpError
HttpFailure(ok, failOn) == ~ok /\ failOn

HttpFailedMessage(status, text) ==
    [message |-> "Lark webhook failed with status", status |-> status, content |-> text]

\* A faulty variant of DryRunOutputs: the status of a sent request.
DryRunOutputsSent == [ok |-> <<TRUE>>, status |-> <<200>>, response_text |-> <<<<"d", "r", "y", "_", "r", "u", "n">>>>]

DryRunOutputs == [ok |-> <<TRUE>>, status |-> <<0>>, response_text |-> <<<<"d", "r", "y", "_", "r", "u", "n">>>>]

\* The state before run() has done anything.
Fresh ==
    /\ timeoutMs = [k |-> "undefined"]
    /\ vars = <<>>
    /\ rendered = <<>>
    /\ body = <<>>
    /\ infoLog = <<>>
    /\ outputs = NoOutputs
    /\ failed = <<>>
    /\ thrown = <<>>
    /\ sendCalls = 0
    /\ now = 0
    /\ posted = <<>>
    /\ timer = "none"
    /\ timerDelay = 0
    /\ aborted = FALSE
    /\ elapsed = 0
    /\ res = <<>>

Init ==
    /\ pc = "start"
    /\ webhookUrl \in UrlSamples
    /\ webhookSecret \in SecretSamples
    /\ template \in TemplateSamples
    /\ variablesInput \in VariablesSamples
    /\ dryRun \in BOOLEAN
    /\ timeoutMsInput \in TimeoutSamples
    /\ failOnHttpError \in BOOLEAN
    /\ Fresh

\* run(), lines 52-55: the catch clause.
Caught(err) ==
    /\ thrown' = <<err>>
    /\ failed' = CatchFailed(err, failed)
    /\ pc' = "done"

\* run(), lines 10-25: a required input is missing.
RunMissingInput ==
    /\ pc = "start"
    /\ webhookUrl = <<>> \/ template = <<>>
    /\ IF webhookUrl = <<>> THEN Caught(RequiredInputError("webhook_url"))
       ELSE Caught(RequiredInputError("message_template"))
    /\ UNCHANGED <<webhookUrl, webhookSecret, template, variablesInput, dryRun, timeoutMsInput,
                   failOnHttpError, timeoutMs, vars, rendered, body, infoLog, outputs,
                   sendCalls, now, posted, timer, timerDelay, aborted, elapsed, res>>

\* run(), lines 22-25 and 52-55: what buildBodyFromTemplate returned or threw.
Built(b) ==
    /\ vars' = b.vars
    /\ rendered' = b.rendered
    /\ IF b.ok
       THEN /\ body' = <<b.body>>
            /\ pc' = "built"
            /\ UNCHANGED <<thrown, failed>>
       ELSE /\ Caught(b.error)
            /\ UNCHANGED body

\* run(), lines 10-25: the inputs are read, the timeout parsed, the body built.
RunBuild ==
    /\ pc = "start"
    /\ webhookUrl # <<>> /\ template # <<>>
    /\ timeoutMs' = ParseTimeout(timeoutMsInput)
    /\ Built(buildBodyFromTemplate(template, variablesInput))
    /\ UNCHANGED <<webhookUrl, webhookSecret, template, variablesInput, dryRun, timeoutMsInput,
                   failOnHttpError, infoLog, outputs, sendCalls, now, posted, timer,
                   timerDelay, aborted, elapsed, res>>

\* run(), lines 27-34
RunDryRun ==
    /\ pc = "built"
    /\ dryRun
    /\ infoLog' = infoLog \o <<[lit |-> "[dry_run] Skipping webhook call. Interpolated JSON:", s |-> <<>>],
                              [lit |-> "", s |-> rendered[1]]>>
    /\ outputs' = DryRunOutputs
    /\ pc' = "done"
    /\ UNCHANGED <<webhookUrl, webhookSecret, template, variablesInput, dryRun, timeoutMsInput,
                   failOnHttpError, timeoutMs, vars, rendered, body, failed, thrown,
                   sendCalls, now, posted, timer, timerDelay, aborted, elapsed, res>>

\* Lines 189-206: the body to post, signed when a secret is set.
PayloadBody(b, webhookKey, requestTimestamp) ==
    IF SigningEnabled(webhookKey) THEN SignedBody(b, webhookKey, requestTimestamp) ELSE b

\* run(), lines 36-39, into sendLarkWebhook, lines 188-219: the body is signed,
\* the timer created and the serialised body logged and posted, or the signing
\* precondition fails.
SendStart ==
    /\ pc = "built"
    /\ ~dryRun
    /\ sendCalls' = sendCalls + 1
    /\ \E ts \in NowSamples :
          /\ now' = ts
          /\ IF SigningEnabled(webhookSecret) /\ ~IsPlainObject(body[1])
             THEN /\ Caught(SigningPreconditionError)
                  /\ UNCHANGED <<posted, timer, timerDelay>>
             ELSE /\ posted' = <<StringifyText(PayloadBody(body[1], webhookSecret, ts))>>
                  /\ timer' = TimerFor(timeoutMs)
                  /\ timerDelay' = TimerDelayFor(timeoutMs)
                  /\ pc' = "fetching"
                  /\ UNCHANGED <<thrown, failed>>
    /\ UNCHANGED <<webhookUrl, webhookSecret, template, variablesInput, dryRun, timeoutMsInput,
                   failOnHttpError, timeoutMs, vars, rendered, body, infoLog, outputs,
                   aborted, elapsed, res>>

\* A millisecond passes with the request in flight.  A pending timer fires
\* when it is due: time does not pass beyond its delay before it has.
Tick ==
    /\ pc = "fetching"
    /\ elapsed < MaxElapsed
    /\ timer = "pending" => elapsed < timerDelay
    /\ elapsed' = elapsed + 1
    /\ UNCHANGED <<webhookUrl, pc, webhookSecret, template, variablesInput, dryRun,
                   timeoutMsInput, failOnHttpError, timeoutMs, vars, rendered, body, infoLog,
                   outputs, failed, thrown, sendCalls, now, posted, timer, timerDelay,
                   aborted, res>>

\* The timer callback, line 210: () => controller.abort()
TimerFire ==
    /\ pc = "fetching"
    /\ timer = "pending"
    /\ elapsed >= timerDelay
    /\ timer' = "fired"
    /\ aborted' = TRUE
    /\ UNCHANGED <<webhookUrl, pc, webhookSecret, template, variablesInput, dryRun,
                   timeoutMsInput, failOnHttpError, timeoutMs, vars, rendered, body, infoLog,
                   outputs, failed, thrown, sendCalls, now, posted, timerDelay, elapsed, res>>

\* fetch resolves, lines 214-223: the finally clause clears the timer and
\* sendLarkWebhook returns the response, whose body is still to be read.
FetchResolve ==
    /\ pc = "fetching"
    /\ ~aborted
    /\ \E status \in StatusSamples, text \in TextSamples :
          res' = <<[status |-> status, ok |-> ResponseOk(status), bodyText |-> text]>>
    /\ timer' = ClearTimer(timer)
    /\ pc' = "reading"
    /\ UNCHANGED <<webhookUrl, webhookSecret, template, variablesInput, dryRun, timeoutMsInput,
                   failOnHttpError, timeoutMs, vars, rendered, body, infoLog, outputs, failed,
                   thrown, sendCalls, now, posted, timerDelay, aborted, elapsed>>

\* fetch rejects, lines 214-223 and 52-55: with the abort error once the signal
\* is aborted, with a network error otherwise.
FetchReject ==
    /\ pc = "fetching"
    /\ IF aborted THEN Caught(AbortError) ELSE Caught(FetchFailedError)
    /\ timer' = ClearTimer(timer)
    /\ UNCHANGED <<webhookUrl, webhookSecret, template, variablesInput, dryRun, timeoutMsInput,
                   failOnHttpError, timeoutMs, vars, rendered, body, infoLog, outputs,
                   sendCalls, now, posted, timerDelay, aborted, elapsed, res>>

\* run(), lines 40-51: res.text() resolves with the body text and the outputs are set.
ReadText ==
    /\ pc = "reading"
    /\ outputs' = [ok |-> <<res[1].ok>>, status |-> <<res[1].status>>,
                    response_text |-> <<res[1].bodyText>>]
    /\ failed' = IF HttpFailure(res[1].ok, failOnHttpError)
                 THEN Append(failed, HttpFailedMessage(res[1].status, res[1].bodyText))
                 ELSE failed
    /\ pc' = "done"
    /\ UNCHANGED <<webhookUrl, webhookSecret, template, variablesInput, dryRun, timeoutMsInput,
                   failOnHttpError, timeoutMs, vars, rendered, body, infoLog, thrown,
                   sendCalls, now, posted, timer, timerDelay, aborted, elapsed, res>>

\* run(), lines 40 and 52-55: res.text() rejects.
ReadTextFail ==
    /\ pc = "reading"
    /\ Caught(BodyReadError)
    /\ UNCHANGED <<webhookUrl, webhookSecret, template, variablesInput, dryRun, timeoutMsInput,
                   failOnHttpError, timeoutMs, vars, rendered, body, infoLog, outputs,
                   sendCalls, now, posted, timer, timerDelay, aborted, elapsed, res>>

Next ==
    \/ RunMissingInput
    \/ RunBuild
    \/ RunDryRun
    \/ SendStart
    \/ Tick
    \/ TimerFire
    \/ FetchResolve
    \/ FetchReject
    \/ ReadText
    \/ ReadTextFail

Spec == Init /\ [][Next]_vars_all

-----------------------------------------------------------------------------
(* The variable parser alone, on one key/value line k=<raw> or k:<raw>. *)

RawAlphabet == {"0", "1", "-", ".", "e", "\"", "[", "]", " ", "a"}

RawSamples ==
    { <<"t", "r", "u", "e">>, <<"f", "a", "l", "s", "e">>, <<"n", "u", "l", "l">>,
      <<"4", "2">>, <<"-", "4", ".", "5">>, <<"0", "0", "7">>, <<"1", "e", "5">>,
      <<"{", "\"", "a", "\"", ":", "1", "}">>, <<"[", "1", ",", "2", "]">>,
      <<"\"", "h", "i", "\"">>, <<"h", "e", "l", "l", "o">> }

RawInputs == UNION {[1..n -> RawAlphabet] : n \in 0..MaxRawLen} \cup RawSamples

KvSeparators == {"=", ":"}

InitKv ==
    /\ pc = "kv"
    /\ \E raw \in RawInputs, sep \in KvSeparators : variablesInput = <<"k", sep>> \o raw
    /\ webhookUrl = <<>>
    /\ webhookSecret = <<>>
    /\ template = <<>>
    /\ dryRun = FALSE
    /\ timeoutMsInput = <<>>
    /\ failOnHttpError = FALSE
    /\ Fresh

\* parseVariables(variablesInput), as buildBodyFromTemplate calls it on line 141.
ParseKv ==
    /\ pc = "kv"
    /\ vars' = parseVariables(variablesInput)
    /\ pc' = "kvdone"
    /\ UNCHANGED <<webhookUrl, webhookSecret, template, variablesInput, dryRun, timeoutMsInput,
                   failOnHttpError, timeoutMs, rendered, body, infoLog, outputs, failed,
                   thrown, sendCalls, now, posted, timer, timerDelay, aborted, elapsed, res>>

NextKv == ParseKv

SpecKv == InitKv /\ [][NextKv]_vars_all

-----------------------------------------------------------------------------
(* The properties. *)

DryRunText == <<"d", "r", "y", "_", "r", "u", "n">>

\* run() got past reading its inputs.
InputsRead == pc \notin {"start", "kv", "kvdone"} /\ webhookUrl # <<>> /\ template # <<>>

\* C1: in a run with dry_run = true whose template renders to valid JSON,
\* sendLarkWebhook is never invoked and nothing is posted; once the run is over
\* the interpolated text is in the log, the outputs are exactly ok = true,
\* status = 0, response_text = "dry_run", and no failure is reported.
C1_DryRunSkipsDispatch ==
    (dryRun /\ body # <<>>) =>
        /\ sendCalls = 0
        /\ posted = <<>>
        /\ failed = <<>>
        /\ pc = "done" =>
              /\ \E i \in 1..Len(infoLog) : infoLog[i].lit = "" /\ infoLog[i].s = rendered[1]
              /\ outputs = [ok |-> <<TRUE>>, status |-> <<0>>, response_text |-> <<DryRunText>>]

C1_Witness ==
    /\ pc = "done"
    /\ dryRun
    /\ body # <<>>
    /\ outputs.response_text = <<DryRunText>>
    /\ Len(infoLog) = 2

\* C2: an error that reaches the catch clause ends the run at once, with
\* exactly one setFailed call and none of the outputs set; a run that ends
\* without an error and without a non-2xx response under fail_on_http_error
\* makes no setFailed call.
C2_ErrorIsOneFailure ==
    /\ thrown # <<>> => (pc = "done" /\ Len(failed) = 1 /\ outputs = NoOutputs)
    /\ (pc = "done" /\ thrown = <<>> /\ (res = <<>> \/ res[1].ok \/ ~failOnHttpError)) => failed = <<>>

C2_Witness ==
    /\ pc = "done"
    /\ thrown # <<>>
    /\ thrown[1].name = "AbortError"
    /\ Len(failed) = 1

\* The outputs as the response gives them.
OutputsOf(r) == [ok |-> <<r.ok>>, status |-> <<r.status>>, response_text |-> <<r.bodyText>>]

\* C3 as stated: whenever sendLarkWebhook has returned a response, the run
\* ends with the outputs set from it, and fails iff the status is outside
\* [200,300) and fail_on_http_error is true.
C3_Original ==
    (pc = "done" /\ res # <<>>) =>
        /\ outputs = OutputsOf(res[1])
        /\ failed # <<>> <=> (~(res[1].status >= 200 /\ res[1].status < 300) /\ failOnHttpError)

\* C3, amended: whenever sendLarkWebhook has returned a response and its text
\* has been read, the outputs are set from it whatever the status, and the run
\* fails (once) iff the status is outside [200,300) and fail_on_http_error is
\* true; when reading the text fails, no output is set and the run fails.
C3_OutputsFromResponse ==
    (pc = "done" /\ res # <<>>) =>
        IF thrown = <<>>
        THEN /\ outputs = OutputsOf(res[1])
             /\ outputs.ok = <<res[1].status >= 200 /\ res[1].status < 300>>
             /\ Len(failed) = IF ~(res[1].status >= 200 /\ res[1].status < 300) /\ failOnHttpError
                              THEN 1 ELSE 0
        ELSE outputs = NoOutputs /\ Len(failed) = 1

C3_Witness ==
    /\ pc = "done"
    /\ res # <<>>
    /\ res[1].status = 500
    /\ ~failOnHttpError
    /\ outputs.status = <<500>>
    /\ failed = <<>>

\* The secret is absent, empty or white space only.
SecretBlank == AllIn(webhookSecret, WhiteSpace)

\* The reference augment(body, secret, nowSeconds) for a mapping: the value
\* of each top-level field.
AugmentField(k) ==
    IF k = TimestampKey THEN JStr(IntToString(now))
    ELSE IF k = SignKey
    THEN JStr(HmacSha256Base64(IntToString(now) \o <<"\n">> \o webhookSecret, <<>>))
    ELSE GetKey(body[1].ms, k)

PostedIsAugmented(p) ==
    /\ p.ok
    /\ p.v.t = "obj"
    /\ Keys(p.v.ms) = Keys(body[1].ms) \cup {TimestampKey, SignKey}
    /\ \A k \in Keys(p.v.ms) : GetKey(p.v.ms, k) = AugmentField(k)

\* C4: what sendLarkWebhook posts is augment(body, secret, now): the body
\* unchanged, whatever its type, when the secret is blank; nothing, and the
\* signing-precondition error, when the secret is set and the body is no
\* mapping; else the body's fields with timestamp and sign set, overwriting.
C4_PostedIsAugment ==
    sendCalls = 1 =>
        IF SecretBlank
        THEN posted # <<>> /\ JSONparse(posted[1]) = [ok |-> TRUE, v |-> body[1]]
        ELSE IF body[1].t # "obj"
        THEN posted = <<>> /\ thrown = <<SigningPreconditionError>>
        ELSE posted # <<>> /\ PostedIsAugmented(JSONparse(posted[1]))

C4_Witness ==
    /\ sendCalls = 1
    /\ ~SecretBlank
    /\ body[1].t = "obj"
    /\ HasKey(body[1].ms, TimestampKey)
    /\ posted # <<>>

\* C5 as stated: a dry run with a secret set and a body that is no mapping
\* fails with the signing-precondition error.
C5_Original ==
    (pc = "done" /\ dryRun /\ body # <<>> /\ ~SecretBlank /\ body[1].t # "obj") =>
        thrown = <<SigningPreconditionError>>

\* C5, amended: a dry run validates the rendered text as a normal run does
\* (invalid JSON fails either way) but makes no signing-precondition check:
\* with a secret set and a body that is no mapping, the dry run succeeds with
\* the dry-run outputs, and the normal run fails with the precondition error.
C5_DryRunSkipsSigningCheck ==
    /\ (pc = "done" /\ rendered # <<>> /\ ~JSONparse(rendered[1]).ok) =>
            (Len(failed) = 1 /\ outputs = NoOutputs /\ sendCalls = 0)
    /\ (pc = "done" /\ body # <<>> /\ ~SecretBlank /\ body[1].t # "obj") =>
            IF dryRun
            THEN thrown = <<>> /\ failed = <<>> /\ outputs.ok = <<TRUE>> /\ outputs.status = <<0>>
            ELSE thrown = <<SigningPreconditionError>> /\ Len(failed) = 1 /\ posted = <<>>

C5_Witness ==
    /\ pc = "done"
    /\ dryRun
    /\ ~SecretBlank
    /\ body # <<>>
    /\ body[1].t = "arr"
    /\ outputs.ok = <<TRUE>>

PositiveTimeout == timeoutMs.k = "num" /\ timeoutMs.n > 0

\* C6: with a positive timeoutMs the request cannot stay in flight beyond
\* that many milliseconds without being aborted, a response is only returned
\* within them, and an aborted request ends the run failed, with the abort
\* error, no response and no output.
C6_TimeoutAborts ==
    PositiveTimeout =>
        /\ pc = "fetching" => timer # "none"
        /\ (pc = "fetching" /\ elapsed > timeoutMs.n) => aborted
        /\ res # <<>> => elapsed <= timeoutMs.n
        /\ (aborted /\ pc = "done") =>
              /\ thrown = <<AbortError>>
              /\ Len(failed) = 1
              /\ res = <<>>
              /\ outputs = NoOutputs

C6_Witness ==
    /\ PositiveTimeout
    /\ pc = "done"
    /\ aborted
    /\ elapsed > timeoutMs.n
    /\ Len(failed) = 1

\* C7: once sendLarkWebhook has returned or thrown, no timer it created is
\* pending: a timer is pending only while the request is in flight.
C7_TimerCleared == timer = "pending" => pc = "fetching"

C7_Witness ==
    /\ pc = "done"
    /\ timer = "cleared"
    /\ thrown = <<FetchFailedError>>

\* ^[+-]?[0-9]+$
IsDecimalInteger(s) ==
    \/ s # <<>> /\ AllIn(s, DigitSet)
    \/ Len(s) > 1 /\ s[1] \in {"+", "-"} /\ AllIn(Tail(s), DigitSet)

\* The text starts, after white space and an optional sign, with a digit.
StartsWithInteger(s) ==
    \E i \in 1..Len(s) :
        /\ s[i] \in DigitSet
        /\ \/ \A j \in 1..(i - 1) : s[j] \in WhiteSpace
           \/ s[i - 1] \in {"+", "-"} /\ \A j \in 1..(i - 2) : s[j] \in WhiteSpace

\* C8 as stated: a request_timeout_ms that is present and no valid decimal
\* integer schedules no timeout abort.
C8_Original ==
    (timeoutMsInput # <<>> /\ ~IsDecimalInteger(timeoutMsInput)) => timer = "none"

\* C8, amended: a request_timeout_ms that is present and no valid decimal
\* integer raises no error; when it does not start with an integer it
\* schedules no timeout abort, and when it starts with one (digits followed
\* by other characters) the leading integer is the timeout, whose timer is
\* created if it is not 0.
C8_InvalidTimeout ==
    (timeoutMsInput # <<>> /\ ~IsDecimalInteger(timeoutMsInput)) =>
        /\ (InputsRead /\ buildBodyFromTemplate(template, variablesInput).ok) => body # <<>>
        /\ IF ~StartsWithInteger(timeoutMsInput)
           THEN timer = "none" /\ (InputsRead => timeoutMs = [k |-> "NaN"])
           ELSE /\ InputsRead => timeoutMs.k = "num"
                /\ (pc = "fetching" /\ timeoutMs.n # 0) =>
                      (timer \in {"pending", "fired"} /\ timerDelay = timeoutMs.n)

C8_Witness ==
    /\ timeoutMsInput = <<"1", "x">>
    /\ pc = "fetching"
    /\ timer = "pending"
    /\ timerDelay = 1

\* The mustaches of a template, and the literal text around them.
Mustaches(tpl) == {tpl[i] : i \in {j \in 1..Len(tpl) : tpl[j].k # "lit"}}

LiteralText(tpl) == Concat([i \in 1..Len(tpl) |-> IF tpl[i].k = "lit" THEN tpl[i].s ELSE <<>>])

\* C9: a placeholder whose variable is absent renders as the empty string in
\* every form, and rendering it raises no error: when every placeholder of
\* the template is absent, the rendered text is the literal text.
C9_AbsentRendersEmpty ==
    (InputsRead /\ \A m \in Mustaches(template) : ResolvePath(JObj(vars), m.path) = Undefined) =>
        rendered = <<LiteralText(template)>>

\* The raw value of the line: what follows the separator, trimmed.
RawOfLine == Trim(SubSeq(variablesInput, 3, Len(variablesInput)))

IsLiteralWord(raw) ==
    raw \in {<<"t", "r", "u", "e">>, <<"f", "a", "l", "s", "e">>, <<"n", "u", "l", "l">>}

LiteralWordValue(raw) ==
    IF raw = <<"n", "u", "l", "l">> THEN JNull ELSE JBool(raw = <<"t", "r", "u", "e">>)

\* C10 as stated: the value stored for k is the boolean or null for
\* true/false/null, a number for a decimal numeral, the decoded object for a
\* JSON object, and the raw string for anything else.
C10_Original ==
    pc = "kvdone" =>
        GetKey(vars, <<"k">>) =
            IF IsLiteralWord(RawOfLine) THEN LiteralWordValue(RawOfLine)
            ELSE IF DecimalRegexTest(RawOfLine) THEN NumberOfDecimal(RawOfLine)
            ELSE IF JSONparse(RawOfLine).ok /\ JSONparse(RawOfLine).v.t = "obj"
            THEN JSONparse(RawOfLine).v
            ELSE JStr(RawOfLine)

\* C10, amended: the value stored for k is the boolean or null for
\* true/false/null, a number for a decimal numeral, the decoded value for any
\* other valid JSON text (object, array, quoted string, number with an
\* exponent), and the raw string for anything else.
C10_CoercedValue ==
    pc = "kvdone" =>
        GetKey(vars, <<"k">>) =
            IF IsLiteralWord(RawOfLine) THEN LiteralWordValue(RawOfLine)
            ELSE IF DecimalRegexTest(RawOfLine) THEN NumberOfDecimal(RawOfLine)
            ELSE IF JSONparse(RawOfLine).ok THEN JSONparse(RawOfLine).v
            ELSE JStr(RawOfLine)

C10_Witness ==
    /\ pc = "kvdone"
    /\ RawOfLine = <<"[", "1", "]">>
    /\ GetKey(vars, <<"k">>) = JArr(<<JNum(1, 0)>>)

====
